---- MODULE Spec2Model ----
(***************************************************************************)
(* Model of libbpf-tools/memleak.bpf.c: the BPF programs that pair an      *)
(* allocation's requested size with the address it returns, keep the       *)
(* outstanding allocations by address and keep per-stack statistics.       *)
(*                                                                         *)
(* Three hash maps are the shared state: sizes (pid -> requested size),    *)
(* allocs (address -> alloc_info_t) and combined_allocs (stack id ->       *)
(* combined_alloc_info_t).  A map is a function whose DOMAIN is the set of *)
(* keys present.  The programs run either one at a time (Spec, SpecPairs,  *)
(* SpecCap: one action per program) or on several CPUs at once, one map    *)
(* operation per step (SpecConc).  Both are built from the same operators. *)
(***************************************************************************)
EXTENDS Integers, Sequences, FiniteSets, TLC

(* ------------------------------ bounds -------------------------------- *)
NPids == 2          \* owners (tgid >> 32) are 1..NPids
NAddrs == 2         \* addresses are 0..NAddrs, 0 being a failed allocation
MaxSize == 2        \* requested sizes are 1..MaxSize
MaxTime == 1        \* bpf_ktime_get_ns() reads 0..MaxTime
NStacks == 1        \* bpf_get_stackid yields 0..NStacks-1 or an error
MaxReuse == 1       \* completions that overwrite an outstanding record
MaxLost == 1        \* completions whose record a full allocs map rejects
MaxOps == 3         \* programs started in a concurrent run
MaxSum == 4         \* update_statistics_add is not called above this total
NCpus == 2          \* CPUs of the concurrent run
U64Bits == 5        \* width the model gives to u64 (scaled down from 64)
UwMaxCalls == 3     \* invocations of uw_get_stackid in a run
U32Bits == 3        \* width the model gives to u32 (scaled down from 32)
MaxSp == 13         \* stack pointers are 1, 3 .. MaxSp

EFAULT == 14        \* bpf_get_stackid fails with a negative errno

U64 == 2 ^ U64Bits
SIZE_MAX == U64 - 1 \* (size_t)-1

Pids == 1 .. NPids
Addrs == 0 .. NAddrs
Sizes == 1 .. MaxSize
Times == 0 .. MaxTime
StackResults == (0 .. (NStacks - 1)) \cup {-EFAULT}
CPUs == 1 .. NCpus

(* ------------------------------ state --------------------------------- *)
VARIABLES
    sizes,            \* map pid_t -> u64
    allocs,           \* map u64 address -> alloc_info_t
    combined_allocs,  \* map u64 stack id -> combined_alloc_info_t
    config,           \* the const volatile globals, fixed at load time
    max_entries,      \* max_entries of the three maps
    cpu,              \* per-CPU position and locals of the running program
    hist,             \* history of the run (read by the properties only)
    used,             \* owners and addresses the run has used so far
    id,               \* unwind.bpf.h: static __u32 id of uw_get_stackid
    uw_samples,       \* map u32 -> struct sample_data
    uw_stacks,        \* map u32 -> dumped user stack
    uw_cpu,           \* per-CPU position and locals of uw_get_stackid
    uw_hist           \* the invocations of uw_get_stackid, in order of start

memvars == <<sizes, allocs, combined_allocs, config, max_entries, cpu, hist, used>>
uwvars == <<id, uw_samples, uw_stacks, uw_cpu, uw_hist>>
vars == <<memvars, uwvars>>

EmptyMap == [k \in {} |-> 0]

(* The three maps as one value, so that programs compose as functions. *)
Tables == [sizes |-> sizes, allocs |-> allocs, combined_allocs |-> combined_allocs]

(* ------------------------- BPF map helpers ---------------------------- *)
Has(m, k) == k \in DOMAIN m

\* A faulty update with BPF_NOEXIST: an existing key keeps its value.
MapUpdateNoExist(m, k, v, cap) ==
    IF k \in DOMAIN m THEN m
    ELSE IF Cardinality(DOMAIN m) < cap THEN (k :> v) @@ m
    ELSE m

\* A full hash map rejects a new key (-E2BIG); an existing key is replaced.
MapUpdate(m, k, v, cap) ==
    IF k \in DOMAIN m THEN [m EXCEPT ![k] = v]
    ELSE IF Cardinality(DOMAIN m) < cap THEN (k :> v) @@ m
    ELSE m

MapDelete(m, k) == [x \in (DOMAIN m) \ {k} |-> m[x]]

\* An int stack id passed as a u64 parameter (sign extension).
ToU64(x) == x % U64

(* ------------------------- statistics --------------------------------- *)
ZeroCinfo == [total_size |-> 0, number_of_allocs |-> 0]

\* combined_alloc_info_t cinfo = {0}; if (existing_cinfo) cinfo = *existing_cinfo;
ReadCinfo(comb, stack_id) ==
    IF Has(comb, stack_id) THEN comb[stack_id] ELSE ZeroCinfo

\* Two faulty adds, which the properties below must tell from AddCompute:
\* one forgets the count, one adds the size twice.
AddNoCount(cinfo, sz) ==
    [total_size |-> (cinfo.total_size + sz) % U64,
     number_of_allocs |-> cinfo.number_of_allocs]

AddTwice(cinfo, sz) ==
    [total_size |-> (cinfo.total_size + sz + sz) % U64,
     number_of_allocs |-> (cinfo.number_of_allocs + 1) % U64]

\* cinfo.total_size += sz; cinfo.number_of_allocs += 1;
AddCompute(cinfo, sz) ==
    [total_size |-> (cinfo.total_size + sz) % U64,
     number_of_allocs |-> (cinfo.number_of_allocs + 1) % U64]

\* Two faulty dels: one subtracts without the clamps, one forgets the count.
DelNoClamp(cinfo, sz) ==
    [total_size |-> (cinfo.total_size - sz) % U64,
     number_of_allocs |-> (cinfo.number_of_allocs - 1) % U64]

DelKeepCount(cinfo, sz) ==
    [total_size |-> IF sz >= cinfo.total_size THEN 0
                    ELSE (cinfo.total_size - sz) % U64,
     number_of_allocs |-> cinfo.number_of_allocs]

\* if (sz >= total_size) total_size = 0; else total_size -= sz;
\* if (number_of_allocs > 0) number_of_allocs -= 1;
DelCompute(cinfo, sz) ==
    [total_size |-> IF sz >= cinfo.total_size THEN 0
                    ELSE (cinfo.total_size - sz) % U64,
     number_of_allocs |-> IF cinfo.number_of_allocs > 0
                          THEN (cinfo.number_of_allocs - 1) % U64
                          ELSE cinfo.number_of_allocs]

update_statistics_add(comb, stack_id, sz, cap) ==
    MapUpdate(comb, stack_id, AddCompute(ReadCinfo(comb, stack_id), sz), cap)

\* A faulty del that removes an entry which has come down to {0, 0}.
DelRemovingZero(comb, stack_id, sz, cap) ==
    IF DelCompute(ReadCinfo(comb, stack_id), sz) = ZeroCinfo
    THEN MapDelete(comb, stack_id)
    ELSE MapUpdate(comb, stack_id, DelCompute(ReadCinfo(comb, stack_id), sz), cap)

update_statistics_del(comb, stack_id, sz, cap) ==
    MapUpdate(comb, stack_id, DelCompute(ReadCinfo(comb, stack_id), sz), cap)

(* ------------------------- the three handlers ------------------------- *)
\* A faulty filter that forgets the upper bound.
AdmitIgnoringMax(size, now) ==
    /\ ~(size < config.min_size)
    /\ ~(config.sample_every_n > 1 /\ now % config.sample_every_n # 0)

\* The two early returns of gen_alloc_enter: size bounds, then sampling.
Admit(size, now) ==
    /\ ~(size < config.min_size \/ size > config.max_size)
    /\ ~(config.sample_every_n > 1 /\ now % config.sample_every_n # 0)

\* A faulty request that keeps the pending size an owner already has.
EnterKeepFirst(t, pid, size, now) ==
    IF Admit(size, now) /\ ~Has(t.sizes, pid)
    THEN [t EXCEPT !.sizes = MapUpdate(t.sizes, pid, size, max_entries.sizes)]
    ELSE t

gen_alloc_enter(t, pid, size, now) ==
    IF Admit(size, now)
    THEN [t EXCEPT !.sizes = MapUpdate(t.sizes, pid, size, max_entries.sizes)]
    ELSE t

\* What the field stack_id of alloc_info_t holds once bpf_get_stackid's
\* result is assigned to it.  The type is declared in memleak.h; as an int
\* (the type of the local that gen_free_enter reads it into) it holds the
\* result as it is, a negative errno included.
StackIdField(stackid) == stackid

\* info as gen_alloc_exit2 fills it in for a non-zero address.  The field
\* timestamp_ns (line 126) is written and never read by any program; it
\* is left out of the record.
MakeInfo(size, stackid) == [size |-> size, stack_id |-> StackIdField(stackid)]

\* A faulty completion that leaves the pending size in place.
ExitKeepPending(t, pid, address, stackid) ==
    IF ~Has(t.sizes, pid) THEN t
    ELSE IF address = 0 THEN t
    ELSE [t EXCEPT
            !.allocs = MapUpdate(t.allocs, address,
                                 MakeInfo(t.sizes[pid], stackid),
                                 max_entries.allocs),
            !.combined_allocs = update_statistics_add(
                                 t.combined_allocs, ToU64(stackid),
                                 t.sizes[pid], max_entries.combined_allocs)]

\* A faulty completion that goes on without a pending size (size 0), and
\* one that does not look at the address.
ExitWithoutCheck(t, pid, address, stackid) ==
    LET sz == IF Has(t.sizes, pid) THEN t.sizes[pid] ELSE 0
    IN  IF address = 0 THEN [t EXCEPT !.sizes = MapDelete(t.sizes, pid)]
        ELSE [t EXCEPT
                !.sizes = MapDelete(t.sizes, pid),
                !.allocs = MapUpdate(t.allocs, address, MakeInfo(sz, stackid),
                                     max_entries.allocs),
                !.combined_allocs = update_statistics_add(
                                     t.combined_allocs, ToU64(stackid), sz,
                                     max_entries.combined_allocs)]

ExitStoresNull(t, pid, address, stackid) ==
    IF ~Has(t.sizes, pid) THEN t
    ELSE [t EXCEPT
            !.sizes = MapDelete(t.sizes, pid),
            !.allocs = MapUpdate(t.allocs, address,
                                 MakeInfo(t.sizes[pid], stackid),
                                 max_entries.allocs),
            !.combined_allocs = update_statistics_add(
                                 t.combined_allocs, ToU64(stackid),
                                 t.sizes[pid], max_entries.combined_allocs)]

\* stackid is what bpf_get_stackid returns.
gen_alloc_exit2(t, pid, address, stackid) ==
    IF ~Has(t.sizes, pid) THEN t                        \* missed alloc entry
    ELSE LET t1 == [t EXCEPT !.sizes = MapDelete(t.sizes, pid)]
         IN  IF address = 0 THEN t1
             ELSE [t1 EXCEPT
                     !.allocs = MapUpdate(t.allocs, address,
                                          MakeInfo(t.sizes[pid], stackid),
                                          max_entries.allocs),
                     !.combined_allocs = update_statistics_add(
                                          t.combined_allocs, ToU64(stackid),
                                          t.sizes[pid],
                                          max_entries.combined_allocs)]

\* A faulty free that reads the stack id into a narrower unsigned local, so
\* that a negative id is not sign-extended into the key.
FreeNarrowKey(t, addr) ==
    IF ~Has(t.allocs, addr) THEN t
    ELSE [t EXCEPT
            !.allocs = MapDelete(t.allocs, addr),
            !.combined_allocs = update_statistics_del(
                                  t.combined_allocs,
                                  t.allocs[addr].stack_id % (U64 \div 2),
                                  t.allocs[addr].size,
                                  max_entries.combined_allocs)]

\* A faulty free that goes on when the address has no record.
FreeWithoutCheck(t, addr) ==
    LET sid == IF Has(t.allocs, addr) THEN t.allocs[addr].stack_id ELSE 0
        sz  == IF Has(t.allocs, addr) THEN t.allocs[addr].size ELSE 0
    IN  [t EXCEPT
           !.allocs = MapDelete(t.allocs, addr),
           !.combined_allocs = update_statistics_del(
                                 t.combined_allocs, ToU64(sid), sz,
                                 max_entries.combined_allocs)]

gen_free_enter(t, addr) ==
    IF ~Has(t.allocs, addr) THEN t
    ELSE [t EXCEPT
            !.allocs = MapDelete(t.allocs, addr),
            !.combined_allocs = update_statistics_del(
                                  t.combined_allocs,
                                  ToU64(t.allocs[addr].stack_id),
                                  t.allocs[addr].size,
                                  max_entries.combined_allocs)]

\* A faulty tracepoint that leaves the workaround out.
AllocWithoutWorkaround(t, wa, pid, size, addr, now, stackid) ==
    gen_alloc_exit2(gen_alloc_enter(t, pid, size, now), pid, addr, stackid)

\* A kmem allocation tracepoint: the optional missing-free workaround,
\* then the request and the completion of the same event.
AllocProgram(t, wa, pid, size, addr, now, stackid) ==
    LET t0 == IF wa THEN gen_free_enter(t, addr) ELSE t
        t1 == gen_alloc_enter(t0, pid, size, now)
    IN  gen_alloc_exit2(t1, pid, addr, stackid)

(* --------------------- unwind.bpf.h: the state ------------------------ *)
U32 == 2 ^ U32Bits

\* const volatile int sample_max_entries; unsigned long sample_ustack_size:
\* set by UW_INIT before load (the defaults are 1024 and 256).
sample_max_entries == 2
sample_ustack_size == 2

\* BPF_CORE_READ(mm, start_stack) and the values of PT_REGS_SP_CORE(ctx):
\* more than 2^U32Bits below the start of the stack, less than that below
\* it, and above it.
start_stack == 12
SPs == {sp \in 1 .. MaxSp : sp % 2 = 1}

\* uw_hist[n]: seen is the id the test at line 63 read (-1 before it),
\* sample and ustack the keys of the two lookups (0 before them), wrote
\* whether the dump has run, after the invocations that had returned when
\* n started, ret what n returned, or Running.
Running == -2

\* The locals of an invocation: stack_len, dump_len and read (whether
\* bpf_probe_read_user returned 0) are set by the dump.
UwIdleCpu ==
    [pc |-> "idle", n |-> 0, mm |-> FALSE, sp |-> 0,
     stack_len |-> 0, dump_len |-> 0, read |-> FALSE]

\* static const struct sample_data szero = {0, }
szero == [user_regs |-> 0, size |-> 0]

InitUw ==
    /\ id = 0
    /\ uw_samples = EmptyMap
    /\ uw_stacks = EmptyMap
    /\ uw_cpu = [c \in CPUs |-> UwIdleCpu]
    /\ uw_hist = <<>>

(* ------------------------------ Init ---------------------------------- *)
SIZES_MAX_ENTRIES == 10240
ALLOCS_MAX_ENTRIES == 1000000
COMBINED_MAX_ENTRIES == 10240

Configs ==
    [min_size : {0, MaxSize}, max_size : {SIZE_MAX},
     sample_every_n : {1, 2}, wa_missing_free : BOOLEAN]

IdleCpu ==
    [pc |-> "idle", prog |-> "none", pid |-> 0, size |-> 0, addr |-> 0,
     admitted |-> FALSE, info |-> MakeInfo(0, 0), cinfo |-> ZeroCinfo]

\* reuses, lost: completions that overwrote a record, that found allocs
\* full.  reqs: see Push.  nops, freed: programs begun, and whether one has
\* deleted a record, in a concurrent run.  floored: see Floors.
InitHist ==
    [reuses |-> 0, lost |-> 0, nops |-> 0, freed |-> FALSE,
     floored |-> FALSE, reqs |-> [p \in Pids |-> <<>>]]

InitCommon ==
    /\ sizes = EmptyMap
    /\ allocs = EmptyMap
    /\ combined_allocs = EmptyMap
    /\ config \in Configs
    /\ cpu = [c \in CPUs |-> IdleCpu]
    /\ hist = InitHist
    /\ used = [pids |-> {}, addrs |-> {}]
    /\ InitUw

\* The maps as the source declares them: larger than the key space of
\* the model, so no insertion is ever rejected.
Init ==
    /\ InitCommon
    /\ max_entries = [sizes |-> SIZES_MAX_ENTRIES,
                      allocs |-> ALLOCS_MAX_ENTRIES,
                      combined_allocs |-> COMBINED_MAX_ENTRIES]

(* ------------------- programs run one at a time ----------------------- *)
SetInitTables(t) ==
    /\ sizes = t.sizes
    /\ allocs = t.allocs
    /\ combined_allocs = t.combined_allocs

SetTables(t) ==
    /\ sizes' = t.sizes
    /\ allocs' = t.allocs
    /\ combined_allocs' = t.combined_allocs

\* The last two admitted requests of an owner since its last completion.
Push(s, x) == IF Len(s) = 2 THEN <<s[2], x>> ELSE Append(s, x)

\* A new key that a full map rejects.
FullFor(m, k, cap) == ~Has(m, k) /\ Cardinality(DOMAIN m) >= cap

uprobe__malloc_enter(pid, size, now) ==
    /\ SetTables(gen_alloc_enter(Tables, pid, size, now))
    /\ hist' = [hist EXCEPT !.reqs[pid] =
                   IF Admit(size, now) THEN Push(@, size) ELSE @]
    /\ UNCHANGED <<config, max_entries, cpu, uwvars>>

\* History of one allocation program: its completion is matched and
\* (reuses) overwrites a record that is still outstanding, or (lost) finds
\* allocs full.  Runs are explored up to MaxReuse and MaxLost of these.
AllocHist(wa, pid, size, addr, now) ==
    LET t0 == IF wa THEN gen_free_enter(Tables, addr) ELSE Tables
        t1 == gen_alloc_enter(t0, pid, size, now)
        stored == Has(t1.sizes, pid) /\ addr # 0
    IN  [hist EXCEPT
           !.reuses = IF stored /\ Has(t0.allocs, addr) THEN @ + 1 ELSE @,
           !.lost = IF stored /\ FullFor(t0.allocs, addr, max_entries.allocs)
                    THEN @ + 1 ELSE @,
           !.reqs[pid] = <<>>]

WithinRunBounds(h) == h.reuses <= MaxReuse /\ h.lost <= MaxLost

\* kmalloc, kmalloc_node, kmem_cache_alloc, kmem_cache_alloc_node
tracepoint__kmalloc(pid, size, addr, now, stackid) ==
    /\ WithinRunBounds(AllocHist(config.wa_missing_free, pid, size, addr, now))
    /\ SetTables(AllocProgram(Tables, config.wa_missing_free,
                              pid, size, addr, now, stackid))
    /\ hist' = AllocHist(config.wa_missing_free, pid, size, addr, now)
    /\ UNCHANGED <<config, max_entries, cpu, uwvars>>

\* mm_page_alloc, percpu_alloc_percpu: no workaround
tracepoint__mm_page_alloc(pid, size, addr, now, stackid) ==
    /\ WithinRunBounds(AllocHist(FALSE, pid, size, addr, now))
    /\ SetTables(AllocProgram(Tables, FALSE, pid, size, addr, now, stackid))
    /\ hist' = AllocHist(FALSE, pid, size, addr, now)
    /\ UNCHANGED <<config, max_entries, cpu, uwvars>>

\* kfree, kmem_cache_free, mm_page_free, percpu_free_percpu
tracepoint__kfree(addr) ==
    /\ SetTables(gen_free_enter(Tables, addr))
    /\ UNCHANGED <<config, max_entries, cpu, hist, uwvars>>

MallocEnterStep ==
    \E pid \in Pids, size \in Sizes, now \in Times :
        uprobe__malloc_enter(pid, size, now) /\ UNCHANGED used

KmallocStep ==
    \E pid \in Pids, size \in Sizes, addr \in Addrs, now \in Times,
       stackid \in StackResults :
        tracepoint__kmalloc(pid, size, addr, now, stackid) /\ UNCHANGED used

PageAllocStep ==
    \E pid \in Pids, size \in Sizes, addr \in Addrs, now \in Times,
       stackid \in StackResults :
        tracepoint__mm_page_alloc(pid, size, addr, now, stackid)
        /\ UNCHANGED used

KfreeStep == \E addr \in Addrs : tracepoint__kfree(addr) /\ UNCHANGED used

Next ==
    \/ MallocEnterStep
    \/ KmallocStep
    \/ PageAllocStep
    \/ KfreeStep

Spec == Init /\ [][Next]_vars

(* ---- request/completion pairs with fresh owners and addresses -------- *)
Fresh(pid, addr) ==
    /\ pid \notin used.pids
    /\ addr # 0
    /\ addr \notin used.addrs

Use(pid, addr) ==
    used' = [pids |-> used.pids \cup {pid}, addrs |-> used.addrs \cup {addr}]

PairKmalloc ==
    \E pid \in Pids, size \in Sizes, addr \in Addrs, now \in Times,
       stackid \in StackResults :
        /\ Fresh(pid, addr)
        /\ tracepoint__kmalloc(pid, size, addr, now, stackid)
        /\ Use(pid, addr)

PairPageAlloc ==
    \E pid \in Pids, size \in Sizes, addr \in Addrs, now \in Times,
       stackid \in StackResults :
        /\ Fresh(pid, addr)
        /\ tracepoint__mm_page_alloc(pid, size, addr, now, stackid)
        /\ Use(pid, addr)

NextPairs == PairKmalloc \/ PairPageAlloc

SpecPairs == Init /\ [][NextPairs]_vars

(* ---------------- maps smaller than the key space --------------------- *)
InitCap ==
    /\ InitCommon
    /\ config.min_size = 0
    /\ config.sample_every_n = 1
    /\ max_entries \in [sizes : {1, SIZES_MAX_ENTRIES},
                        allocs : {1},
                        combined_allocs : {1, COMBINED_MAX_ENTRIES}]

SpecCap == InitCap /\ [][Next]_vars

(* ------------- programs on several CPUs, step by step ----------------- *)
(* Each step is one map operation together with the local computation     *)
(* that follows it.  pc names the next operation of the program on the CPU.*)
\* A del that has more to take off than the entry holds.
Floors(cinfo, sz) == sz > cinfo.total_size \/ cinfo.number_of_allocs = 0

FirstPc(prog) ==
    IF prog = "kfree" \/ (prog = "kmalloc" /\ config.wa_missing_free)
    THEN "free_lookup"
    ELSE "enter"

\* A program fires on an idle CPU: ctx gives it size and address, the
\* current task its pid.  The CPUs are alike, so it is the lowest idle one.
Begin(c, prog, pid, size, addr) ==
    /\ cpu[c].pc = "idle"
    /\ \A d \in CPUs : d < c => cpu[d].pc # "idle"
    /\ hist.nops < MaxOps
    /\ cpu' = [cpu EXCEPT ![c] =
                 [IdleCpu EXCEPT !.pc = FirstPc(prog), !.prog = prog,
                                 !.pid = pid, !.size = size, !.addr = addr]]
    /\ hist' = [hist EXCEPT !.nops = @ + 1]
    /\ UNCHANGED <<sizes, allocs, combined_allocs, config, max_entries, used, uwvars>>

\* Where a program goes once gen_free_enter has returned.
AfterFree(c) ==
    IF cpu[c].prog = "kfree" THEN IdleCpu ELSE [cpu[c] EXCEPT !.pc = "enter"]

\* gen_free_enter, bpf_map_lookup_elem(&allocs) and the copy of the record
FreeLookup(c) ==
    /\ cpu[c].pc = "free_lookup"
    /\ cpu' = [cpu EXCEPT ![c] =
                 IF Has(allocs, cpu[c].addr)
                 THEN [cpu[c] EXCEPT !.pc = "free_delete",
                                     !.info = allocs[cpu[c].addr]]
                 ELSE AfterFree(c)]
    /\ UNCHANGED <<sizes, allocs, combined_allocs, config, max_entries,
                   hist, used, uwvars>>

\* gen_free_enter, bpf_map_delete_elem(&allocs)
FreeDelete(c) ==
    /\ cpu[c].pc = "free_delete"
    /\ allocs' = MapDelete(allocs, cpu[c].addr)
    /\ cpu' = [cpu EXCEPT ![c].pc = "del_lookup"]
    /\ hist' = [hist EXCEPT !.freed = TRUE]
    /\ UNCHANGED <<sizes, combined_allocs, config, max_entries, used, uwvars>>

\* update_statistics_del up to its write
DelLookup(c) ==
    /\ cpu[c].pc = "del_lookup"
    /\ cpu' = [cpu EXCEPT ![c].pc = "del_update",
                          ![c].cinfo =
                             DelCompute(ReadCinfo(combined_allocs,
                                                  ToU64(cpu[c].info.stack_id)),
                                        cpu[c].info.size)]
    /\ hist' = [hist EXCEPT !.floored =
                   @ \/ Floors(ReadCinfo(combined_allocs,
                                         ToU64(cpu[c].info.stack_id)),
                               cpu[c].info.size)]
    /\ UNCHANGED <<sizes, allocs, combined_allocs, config, max_entries, used, uwvars>>

\* update_statistics_del, bpf_map_update_elem(&combined_allocs)
DelUpdate(c) ==
    /\ cpu[c].pc = "del_update"
    /\ combined_allocs' = MapUpdate(combined_allocs,
                                    ToU64(cpu[c].info.stack_id), cpu[c].cinfo,
                                    max_entries.combined_allocs)
    /\ cpu' = [cpu EXCEPT ![c] = AfterFree(c)]
    /\ UNCHANGED <<sizes, allocs, config, max_entries, hist, used, uwvars>>

\* gen_alloc_enter: its only map operation is the update of sizes
Enter(c) ==
    /\ cpu[c].pc = "enter"
    /\ \E now \in Times :
          /\ sizes' = gen_alloc_enter(Tables, cpu[c].pid, cpu[c].size, now).sizes
          /\ cpu' = [cpu EXCEPT ![c] =
                       IF cpu[c].prog = "malloc_enter" THEN IdleCpu
                       ELSE [cpu[c] EXCEPT !.pc = "exit_lookup",
                                !.admitted = Admit(cpu[c].size, now)]]
    /\ UNCHANGED <<allocs, combined_allocs, config, max_entries, hist, used, uwvars>>

\* gen_alloc_exit2, bpf_map_lookup_elem(&sizes) and info.size = *size64
ExitLookup(c) ==
    /\ cpu[c].pc = "exit_lookup"
    /\ cpu' = [cpu EXCEPT ![c] =
                 IF Has(sizes, cpu[c].pid)
                 THEN [cpu[c] EXCEPT !.pc = "exit_delete",
                                     !.info.size = sizes[cpu[c].pid]]
                 ELSE IdleCpu]
    /\ UNCHANGED <<sizes, allocs, combined_allocs, config, max_entries,
                   hist, used, uwvars>>

\* gen_alloc_exit2, bpf_map_delete_elem(&sizes)
ExitDelete(c) ==
    /\ cpu[c].pc = "exit_delete"
    /\ sizes' = MapDelete(sizes, cpu[c].pid)
    /\ cpu' = [cpu EXCEPT ![c] =
                 IF cpu[c].addr # 0 THEN [cpu[c] EXCEPT !.pc = "exit_store"]
                 ELSE IdleCpu]
    /\ UNCHANGED <<allocs, combined_allocs, config, max_entries, hist, used, uwvars>>

\* gen_alloc_exit2, bpf_get_stackid and bpf_map_update_elem(&allocs)
ExitStore(c) ==
    /\ cpu[c].pc = "exit_store"
    /\ \E stackid \in StackResults :
          /\ allocs' = MapUpdate(allocs, cpu[c].addr,
                                 MakeInfo(cpu[c].info.size, stackid),
                                 max_entries.allocs)
          /\ cpu' = [cpu EXCEPT ![c].pc = "add_lookup",
                                ![c].info.stack_id = stackid]
    /\ hist' = [hist EXCEPT !.reuses =
                   IF Has(allocs, cpu[c].addr) THEN @ + 1 ELSE @]
    /\ UNCHANGED <<sizes, combined_allocs, config, max_entries, used, uwvars>>

\* update_statistics_add up to its write
AddLookup(c) ==
    /\ cpu[c].pc = "add_lookup"
    /\ cpu' = [cpu EXCEPT ![c].pc = "add_update",
                          ![c].cinfo =
                             AddCompute(ReadCinfo(combined_allocs,
                                                  ToU64(cpu[c].info.stack_id)),
                                        cpu[c].info.size)]
    /\ UNCHANGED <<sizes, allocs, combined_allocs, config, max_entries,
                   hist, used, uwvars>>

\* update_statistics_add, bpf_map_update_elem(&combined_allocs)
AddUpdate(c) ==
    /\ cpu[c].pc = "add_update"
    /\ combined_allocs' = MapUpdate(combined_allocs,
                                    ToU64(cpu[c].info.stack_id), cpu[c].cinfo,
                                    max_entries.combined_allocs)
    /\ cpu' = [cpu EXCEPT ![c] = IdleCpu]
    /\ UNCHANGED <<sizes, allocs, config, max_entries, hist, used, uwvars>>

\* uprobe__malloc_enter reads no address, the free programs no pid or size.
BeginMallocEnterStep ==
    \E c \in CPUs, pid \in Pids, size \in Sizes :
        Begin(c, "malloc_enter", pid, size, 0)

BeginAllocStep ==
    \E c \in CPUs, prog \in {"kmalloc", "mm_page_alloc"}, pid \in Pids,
       size \in Sizes, addr \in Addrs :
        Begin(c, prog, pid, size, addr)

BeginKfreeStep == \E c \in CPUs, addr \in Addrs : Begin(c, "kfree", 0, 0, addr)

FreeLookupStep == \E c \in CPUs : FreeLookup(c)
FreeDeleteStep == \E c \in CPUs : FreeDelete(c)
DelLookupStep == \E c \in CPUs : DelLookup(c)
DelUpdateStep == \E c \in CPUs : DelUpdate(c)
EnterStep == \E c \in CPUs : Enter(c)
ExitLookupStep == \E c \in CPUs : ExitLookup(c)
ExitDeleteStep == \E c \in CPUs : ExitDelete(c)
ExitStoreStep == \E c \in CPUs : ExitStore(c)
AddLookupStep == \E c \in CPUs : AddLookup(c)
AddUpdateStep == \E c \in CPUs : AddUpdate(c)

NextConc ==
    \/ BeginMallocEnterStep
    \/ BeginAllocStep
    \/ BeginKfreeStep
    \/ FreeLookupStep
    \/ FreeDeleteStep
    \/ DelLookupStep
    \/ DelUpdateStep
    \/ EnterStep
    \/ ExitLookupStep
    \/ ExitDeleteStep
    \/ ExitStoreStep
    \/ AddLookupStep
    \/ AddUpdateStep

\* The concurrent runs are explored with the default filter, which admits
\* every request.
InitConc == Init /\ config.min_size = 0 /\ config.sample_every_n = 1

SpecConc == InitConc /\ [][NextConc]_vars

AllIdle == \A c \in CPUs : cpu[c].pc = "idle"

(* ------- the statistics alone: add and del calls in any order --------- *)
StatKeySet == {ToU64(s) : s \in StackResults}

StatsAdd(k, sz) ==
    /\ ReadCinfo(combined_allocs, k).total_size + sz <= MaxSum
    /\ ReadCinfo(combined_allocs, k).number_of_allocs < MaxSum
    /\ combined_allocs' = update_statistics_add(combined_allocs, k, sz,
                                                max_entries.combined_allocs)
    /\ UNCHANGED <<sizes, allocs, config, max_entries, cpu, hist, used, uwvars>>

StatsDel(k, sz) ==
    /\ combined_allocs' = update_statistics_del(combined_allocs, k, sz,
                                                max_entries.combined_allocs)
    /\ hist' = [hist EXCEPT !.floored =
                   @ \/ Floors(ReadCinfo(combined_allocs, k), sz)]
    /\ UNCHANGED <<sizes, allocs, config, max_entries, cpu, used, uwvars>>

StatsAddStep == \E k \in StatKeySet, sz \in Sizes : StatsAdd(k, sz)
StatsDelStep == \E k \in StatKeySet, sz \in Sizes : StatsDel(k, sz)

NextStats == StatsAddStep \/ StatsDelStep

InitStats ==
    /\ Init
    /\ config.min_size = 0
    /\ config.sample_every_n = 1
    /\ ~config.wa_missing_free

SpecStats == InitStats /\ [][NextStats]_vars

(* ---- the kmem programs with the missing-free workaround enabled ------ *)
(* kmalloc, kmalloc_node, kmem_cache_alloc, kmem_cache_alloc_node, their   *)
(* frees and the uprobe.  Here used.addrs holds the addresses that an      *)
(* event has stored a record for while they had one.                       *)
Reallocated(pid, size, addr, now, stackid) ==
    /\ Has(allocs, addr)
    /\ Has(AllocProgram(Tables, config.wa_missing_free,
                        pid, size, addr, now, stackid).allocs, addr)

WaKmallocStep ==
    \E pid \in Pids, size \in Sizes, addr \in Addrs, now \in Times,
       stackid \in StackResults :
        /\ tracepoint__kmalloc(pid, size, addr, now, stackid)
        /\ used' = [used EXCEPT !.addrs =
                       IF Reallocated(pid, size, addr, now, stackid)
                       THEN @ \cup {addr} ELSE @]

NextWa ==
    \/ WaKmallocStep
    \/ KfreeStep
    \/ MallocEnterStep

InitWa == Init /\ config.wa_missing_free

SpecWa == InitWa /\ [][NextWa]_vars

(* ------ free programs on several CPUs, two records outstanding ------- *)
\* The maps after two allocation events of one owner, at addresses 1 and 2.
TwoAllocs(s1, k1, s2, k2) ==
    AllocProgram(
        AllocProgram([sizes |-> EmptyMap, allocs |-> EmptyMap,
                      combined_allocs |-> EmptyMap],
                     FALSE, 1, s1, 1, 0, k1),
        FALSE, 1, s2, 2, 0, k2)

InitFrees ==
    /\ config = [min_size |-> 0, max_size |-> SIZE_MAX,
                 sample_every_n |-> 1, wa_missing_free |-> FALSE]
    /\ max_entries = [sizes |-> SIZES_MAX_ENTRIES,
                      allocs |-> ALLOCS_MAX_ENTRIES,
                      combined_allocs |-> COMBINED_MAX_ENTRIES]
    /\ \E s1 \in Sizes, s2 \in Sizes, k1 \in StackResults,
          k2 \in StackResults :
          SetInitTables(TwoAllocs(s1, k1, s2, k2))
    /\ cpu = [c \in CPUs |-> IdleCpu]
    /\ hist = InitHist
    /\ used = [pids |-> {}, addrs |-> {}]
    /\ InitUw

NextFrees ==
    \/ BeginKfreeStep
    \/ FreeLookupStep
    \/ FreeDeleteStep
    \/ DelLookupStep
    \/ DelUpdateStep

SpecFrees == InitFrees /\ [][NextFrees]_vars

(* ------------- unwind.bpf.h: uw_get_stackid on several CPUs ----------- *)
(* One step per access to the shared state: the test of id, the atomic    *)
(* add, the two map lookups (each reads id as its key), the dump, and the *)
(* read of id that is returned.  Invocation n is the n-th to start.       *)

\* maps.bpf.h, bpf_map_lookup_or_try_init: the value at the key, inserted
\* from init when the key is absent.  made says whether an absent key could
\* be inserted (max_entries of the map is set outside this file).
LookupOrTryInit(m, k, init, made) ==
    IF Has(m, k) THEN m
    ELSE IF made THEN (k :> init) @@ m
    ELSE m

UwReturn(c, r) ==
    /\ uw_cpu' = [uw_cpu EXCEPT ![c] = UwIdleCpu]
    /\ uw_hist' = [uw_hist EXCEPT ![uw_cpu[c].n].ret = r]

\* An invocation starts on the lowest idle CPU; mm is whether the task has
\* an mm, sp its user stack pointer.
UwBegin(c, mm, sp) ==
    /\ uw_cpu[c].pc = "idle"
    /\ \A d \in CPUs : d < c => uw_cpu[d].pc # "idle"
    /\ Len(uw_hist) < UwMaxCalls
    /\ uw_cpu' = [uw_cpu EXCEPT ![c] =
                    [UwIdleCpu EXCEPT !.pc = "check",
                                      !.n = Len(uw_hist) + 1,
                                      !.mm = mm, !.sp = sp]]
    /\ uw_hist' = Append(uw_hist,
                         [ret |-> Running, seen |-> -1, sample |-> 0,
                          ustack |-> 0, wrote |-> FALSE,
                          after |-> {i \in 1 .. Len(uw_hist) :
                                        uw_hist[i].ret # Running}])
    /\ UNCHANGED <<id, uw_samples, uw_stacks, memvars>>

\* if (!mm) return -1; if (id >= sample_max_entries) return -1;
UwCheck(c) ==
    /\ uw_cpu[c].pc = "check"
    /\ IF ~uw_cpu[c].mm \/ id >= sample_max_entries
       THEN /\ uw_cpu' = [uw_cpu EXCEPT ![c] = UwIdleCpu]
            /\ uw_hist' = [uw_hist EXCEPT ![uw_cpu[c].n].ret = -1,
                                          ![uw_cpu[c].n].seen = id]
       ELSE /\ uw_cpu' = [uw_cpu EXCEPT ![c].pc = "add"]
            /\ uw_hist' = [uw_hist EXCEPT ![uw_cpu[c].n].seen = id]
    /\ UNCHANGED <<id, uw_samples, uw_stacks, memvars>>

\* __sync_fetch_and_add(&id, 1)
UwAdd(c) ==
    /\ uw_cpu[c].pc = "add"
    /\ id' = (id + 1) % U32
    /\ uw_cpu' = [uw_cpu EXCEPT ![c].pc = "sample"]
    /\ UNCHANGED <<uw_samples, uw_stacks, uw_hist, memvars>>

\* sample = bpf_map_lookup_or_try_init(&UW_SAMPLES_MAP, &id, &szero)
UwSample(c) ==
    /\ uw_cpu[c].pc = "sample"
    /\ \E made \in BOOLEAN :
          /\ uw_samples' = LookupOrTryInit(uw_samples, id, szero, made)
          /\ IF Has(uw_samples', id)
             THEN /\ uw_cpu' = [uw_cpu EXCEPT ![c].pc = "stack"]
                  /\ uw_hist' = [uw_hist EXCEPT ![uw_cpu[c].n].sample = id]
             ELSE UwReturn(c, -1)
    /\ UNCHANGED <<id, uw_stacks, memvars>>

\* ustack = bpf_map_lookup_or_try_init(&UW_STACKS_MAP, &id, &uzero)
UwStack(c) ==
    /\ uw_cpu[c].pc = "stack"
    /\ \E made \in BOOLEAN :
          /\ uw_stacks' = LookupOrTryInit(uw_stacks, id, 0, made)
          /\ IF Has(uw_stacks', id)
             THEN /\ uw_cpu' = [uw_cpu EXCEPT ![c].pc = "dump"]
                  /\ uw_hist' = [uw_hist EXCEPT ![uw_cpu[c].n].ustack = id]
             ELSE UwReturn(c, -1)
    /\ UNCHANGED <<id, uw_samples, memvars>>

\* stack_len = BPF_CORE_READ(mm, start_stack) - sp, as a u32
StackLen(sp) == (start_stack - sp) % U32

\* A faulty variant: the length is not clamped.
MinTakingFirst(x, y) == x

\* #define MIN(x, y) (((x) < (y)) ? (x) : (y))
MIN(x, y) == IF x < y THEN x ELSE y

\* dump_len = MIN(stack_len, sample_ustack_size), stored in a u32
DumpLen(sp) == MIN(StackLen(sp), sample_ustack_size) % U32

\* The dump through the pointers sample and ustack: the registers of the
\* invocation (written as its number n), then the user stack; read is
\* whether bpf_probe_read_user succeeds (it zeroes the buffer if not).
UwDump(c) ==
    /\ uw_cpu[c].pc = "dump"
    /\ \E read \in BOOLEAN :
          LET n == uw_cpu[c].n
              k1 == uw_hist[n].sample
              k2 == uw_hist[n].ustack
          IN  /\ uw_samples' =
                    [uw_samples EXCEPT
                       ![k1] = [user_regs |-> n,
                                size |-> IF read THEN DumpLen(uw_cpu[c].sp)
                                         ELSE @.size]]
              /\ uw_stacks' = [uw_stacks EXCEPT ![k2] = IF read THEN n ELSE 0]
              /\ uw_hist' = [uw_hist EXCEPT ![n].wrote = TRUE]
              /\ uw_cpu' = [uw_cpu EXCEPT
                              ![c].pc = "ret",
                              ![c].stack_len = StackLen(uw_cpu[c].sp),
                              ![c].dump_len = DumpLen(uw_cpu[c].sp),
                              ![c].read = read]
    /\ UNCHANGED <<id, memvars>>

\* return id
UwRet(c) ==
    /\ uw_cpu[c].pc = "ret"
    /\ UwReturn(c, id)
    /\ UNCHANGED <<id, uw_samples, uw_stacks, memvars>>

UwBeginStep == \E c \in CPUs, mm \in BOOLEAN, sp \in SPs : UwBegin(c, mm, sp)
UwCheckStep == \E c \in CPUs : UwCheck(c)
UwAddStep == \E c \in CPUs : UwAdd(c)
UwSampleStep == \E c \in CPUs : UwSample(c)
UwStackStep == \E c \in CPUs : UwStack(c)
UwDumpStep == \E c \in CPUs : UwDump(c)
UwRetStep == \E c \in CPUs : UwRet(c)

NextUw ==
    \/ UwBeginStep
    \/ UwCheckStep
    \/ UwAddStep
    \/ UwSampleStep
    \/ UwStackStep
    \/ UwDumpStep
    \/ UwRetStep

SpecUw == InitStats /\ [][NextUw]_vars

(* ------- every setting of the filter, programs one at a time --------- *)
FilterConfigs ==
    [min_size : {0, MaxSize}, max_size : {1, SIZE_MAX},
     sample_every_n : {0, 1, 2}, wa_missing_free : {FALSE}]

InitFilter ==
    /\ sizes = EmptyMap
    /\ allocs = EmptyMap
    /\ combined_allocs = EmptyMap
    /\ config \in FilterConfigs
    /\ cpu = [c \in CPUs |-> IdleCpu]
    /\ hist = InitHist
    /\ used = [pids |-> {}, addrs |-> {}]
    /\ InitUw
    /\ max_entries = [sizes |-> SIZES_MAX_ENTRIES,
                      allocs |-> ALLOCS_MAX_ENTRIES,
                      combined_allocs |-> COMBINED_MAX_ENTRIES]

SpecFilter == InitFilter /\ [][Next]_vars

(* ------------------------- properties --------------------------------- *)
RECURSIVE SumSizes(_, _)
SumSizes(al, as) ==
    IF as = {} THEN 0
    ELSE LET a == CHOOSE x \in as : TRUE
         IN  al[a].size + SumSizes(al, as \ {a})

\* The outstanding records whose stack id, as a map key, is k.
RecsOf(al, k) == {a \in DOMAIN al : ToU64(al[a].stack_id) = k}

StatKeys(t) ==
    DOMAIN t.combined_allocs
        \cup {ToU64(t.allocs[a].stack_id) : a \in DOMAIN t.allocs}

Outstanding(al, k) ==
    [total_size |-> SumSizes(al, RecsOf(al, k)),
     number_of_allocs |-> Cardinality(RecsOf(al, k))]

\* Every stack's statistics equal the sum and number of its records.
Match(t) ==
    \A k \in StatKeys(t) :
        ReadCinfo(t.combined_allocs, k) = Outstanding(t.allocs, k)

\* C1: after any sequence of request/completion pairs with pairwise
\* distinct owners and pairwise distinct non-zero addresses, run one at a
\* time within capacity, every stack's total_size is the sum of the sizes
\* of its records and its number_of_allocs is their number.
C1_PairsMatch == Match(Tables)

C1_Witness ==
    \E k \in DOMAIN combined_allocs :
        /\ Cardinality(RecsOf(allocs, k)) = 2
        /\ combined_allocs[k].number_of_allocs = 2
        /\ Cardinality(used.addrs) = 2

\* C2 as stated: run one at a time, after any sequence of request,
\* completion and free events the statistics of every stack equal the sum
\* and number of its outstanding records.
C2_AlwaysMatch == Match(Tables)

\* C2 amended: the same, for runs within capacity in which no matched
\* completion has arrived for an address that still had a record.
C2_MatchWithoutReuse == hist.reuses = 0 => Match(Tables)

C2_Witness ==
    /\ hist.reuses = 0
    /\ \E a \in DOMAIN allocs, k \in DOMAIN combined_allocs :
          /\ combined_allocs[k] = ZeroCinfo
          /\ ToU64(allocs[a].stack_id) # k

\* C3: when allocs is full and a matched completion arrives for a new
\* non-zero address, the event is dropped as a whole: no record is
\* created and no statistics change.
C3_DroppedAsAWhole ==
    [][\A pid \in Pids, size \in Sizes, addr \in Addrs, now \in Times,
          stackid \in StackResults :
          (/\ tracepoint__mm_page_alloc(pid, size, addr, now, stackid)
           /\ Has(gen_alloc_enter(Tables, pid, size, now).sizes, pid)
           /\ addr # 0
           /\ FullFor(allocs, addr, max_entries.allocs))
          => (allocs' = allocs /\ combined_allocs' = combined_allocs)]_vars

\* C4: the record a completion creates carries the size that the request
\* of the same call passed, for every interleaving of the programs, also
\* of threads that share one pid.
C4_RecordHasOwnSize ==
    \A c \in CPUs :
        (cpu[c].pc \in {"add_lookup", "add_update"} /\ cpu[c].admitted)
        => cpu[c].info.size = cpu[c].size

\* C5: the completion that follows a rejected request of the same owner
\* creates no record and changes no statistics, also when an earlier
\* request of that owner is still pending.
C5_RejectedIsUnmatched ==
    [][\A pid \in Pids, size \in Sizes, addr \in Addrs, now \in Times,
          stackid \in StackResults :
          (tracepoint__mm_page_alloc(pid, size, addr, now, stackid)
              /\ ~Admit(size, now))
          => (allocs' = allocs /\ combined_allocs' = combined_allocs)]_vars

\* C6: a free of an address without a record changes no map, and a
\* second free of the same address right after the first changes nothing.
C6_FreeIdempotent ==
    \A a \in Addrs :
        /\ ~Has(allocs, a) => gen_free_enter(Tables, a) = Tables
        /\ gen_free_enter(gen_free_enter(Tables, a), a)
              = gen_free_enter(Tables, a)

C6_Witness ==
    /\ allocs = EmptyMap
    /\ \E k \in DOMAIN combined_allocs : combined_allocs[k] = ZeroCinfo
    /\ sizes # EmptyMap

\* C7: after two admitted requests s1 then s2 of one owner with no
\* completion of that owner in between, its next completion with a
\* non-zero address creates a record of size s2 (and no other record
\* changes), and a further completion of that owner is unmatched.
C7_LastWriteWins ==
    \A pid \in Pids :
        Len(hist.reqs[pid]) = 2 =>
            \A addr \in Addrs \ {0}, stackid \in StackResults :
                LET t1 == gen_alloc_exit2(Tables, pid, addr, stackid)
                IN  /\ Has(t1.allocs, addr)
                    /\ t1.allocs[addr] = MakeInfo(hist.reqs[pid][2], stackid)
                    /\ \A a \in DOMAIN allocs \ {addr} :
                          Has(t1.allocs, a) /\ t1.allocs[a] = allocs[a]
                    /\ ~Has(t1.sizes, pid)
                    /\ \A a2 \in Addrs, s2 \in StackResults :
                          gen_alloc_exit2(t1, pid, a2, s2) = t1

C7_Witness ==
    \E pid \in Pids :
        /\ Len(hist.reqs[pid]) = 2
        /\ hist.reqs[pid][1] # hist.reqs[pid][2]
        /\ Has(sizes, pid)
        /\ sizes[pid] = hist.reqs[pid][2]

\* C10: run one at a time within capacity, an admitted request followed
\* by its completion at a non-zero address raises the statistics of the
\* stack by {size, 1}; the free of the address that follows restores
\* them, removes the record and leaves no pending size for the owner.
C10_RoundTrip ==
    \A pid \in Pids, size \in Sizes, now \in Times,
       addr \in Addrs \ {0}, stackid \in StackResults :
        Admit(size, now) =>
            LET k == ToU64(stackid)
                before == ReadCinfo(combined_allocs, k)
                t1 == gen_alloc_exit2(gen_alloc_enter(Tables, pid, size, now),
                                      pid, addr, stackid)
                t2 == gen_free_enter(t1, addr)
            IN  /\ Has(t1.allocs, addr)
                /\ ReadCinfo(t1.combined_allocs, k) =
                      [total_size |-> before.total_size + size,
                       number_of_allocs |-> before.number_of_allocs + 1]
                /\ ReadCinfo(t2.combined_allocs, k) = before
                /\ ~Has(t2.allocs, addr)
                /\ ~Has(t2.sizes, pid)

C10_Witness ==
    /\ allocs = EmptyMap
    /\ sizes = EmptyMap
    /\ \E k \in DOMAIN combined_allocs : combined_allocs[k] = ZeroCinfo
    /\ hist.reuses = 0

\* C8: in any order of add and del calls no subtraction wraps: a del
\* never raises total_size or number_of_allocs, takes exactly sz off a
\* total_size above sz, leaves 0 when sz >= total_size, and leaves a
\* number_of_allocs of 0 at 0.
C8_NoUnderflow ==
    [][\A k \in StatKeySet, sz \in Sizes :
          StatsDel(k, sz) =>
              LET old == ReadCinfo(combined_allocs, k)
                  new == combined_allocs'[k]
              IN  /\ new.total_size <= old.total_size
                  /\ new.number_of_allocs <= old.number_of_allocs
                  /\ sz >= old.total_size => new.total_size = 0
                  /\ sz < old.total_size
                        => new.total_size = old.total_size - sz
                  /\ old.number_of_allocs = 0 => new.number_of_allocs = 0
                  /\ old.number_of_allocs > 0
                        => new.number_of_allocs = old.number_of_allocs - 1]_vars

C8_Witness ==
    /\ hist.floored
    /\ \E k \in DOMAIN combined_allocs : combined_allocs[k] = ZeroCinfo

\* No stack's statistics exceed the sum and number of its records.
AtMost(t) ==
    \A k \in StatKeys(t) :
        /\ ReadCinfo(t.combined_allocs, k).total_size
              <= Outstanding(t.allocs, k).total_size
        /\ ReadCinfo(t.combined_allocs, k).number_of_allocs
              <= Outstanding(t.allocs, k).number_of_allocs

\* C9 as stated: when the programs interleave, a lost update leaves an
\* under-count: once every program has finished, no stack's statistics
\* exceed the sum and number of its outstanding records (in runs without
\* an overwritten record and without a floored del, which leave a
\* difference of their own).
C9_LostUpdateUndercounts ==
    (AllIdle /\ hist.reuses = 0 /\ ~hist.floored) => AtMost(Tables)

\* C9 amended: that holds of the runs in which no record has been freed
\* (a lost add); a del that races with an add or a del can be the lost
\* update, and then the statistics exceed the records.
C9_LostAddUndercounts ==
    (AllIdle /\ hist.reuses = 0 /\ ~hist.freed) => AtMost(Tables)

C9_Witness ==
    /\ AllIdle
    /\ hist.reuses = 0
    /\ ~hist.freed
    /\ \E k \in DOMAIN combined_allocs :
          /\ combined_allocs[k].number_of_allocs = 1
          /\ Cardinality(RecsOf(allocs, k)) = 2
          /\ combined_allocs[k].total_size < Outstanding(allocs, k).total_size

\* C11: a completion of an owner without a pending size changes no map,
\* whatever the address and whatever the stack resolver returns.
C11_UnmatchedChangesNothing ==
    \A pid \in Pids, addr \in Addrs, stackid \in StackResults :
        ~Has(sizes, pid) => gen_alloc_exit2(Tables, pid, addr, stackid) = Tables

C11_Witness ==
    /\ allocs # EmptyMap
    /\ \E k \in DOMAIN combined_allocs : combined_allocs[k] # ZeroCinfo
    /\ \E p, q \in Pids : ~Has(sizes, p) /\ Has(sizes, q)

\* C12: a matched completion with address 0 creates no record and changes
\* no statistics, removes the owner's pending size and no other, and the
\* owner's next completion without a new request changes nothing.
C12_NullConsumesPending ==
    \A pid \in DOMAIN sizes, stackid \in StackResults :
        LET t1 == gen_alloc_exit2(Tables, pid, 0, stackid)
        IN  /\ t1.allocs = allocs
            /\ t1.combined_allocs = combined_allocs
            /\ t1.sizes = MapDelete(sizes, pid)
            /\ ~Has(t1.sizes, pid)
            /\ \A a2 \in Addrs, s2 \in StackResults :
                  gen_alloc_exit2(t1, pid, a2, s2) = t1

C12_Witness ==
    /\ Cardinality(DOMAIN sizes) = NPids
    /\ allocs # EmptyMap
    /\ ~Has(allocs, 0)

\* C13: when bpf_get_stackid fails for a matched completion with a
\* non-zero address, a record with the pending size and the error value as
\* stack id is stored and {size, 1} is added to the statistics under that
\* value as key; the free of the address takes {size, 1} off the same
\* entry and touches no other.
C13_ResolverFailureTracked ==
    \A pid \in DOMAIN sizes, addr \in Addrs \ {0} :
        LET K == ToU64(-EFAULT)
            before == ReadCinfo(combined_allocs, K)
            t1 == gen_alloc_exit2(Tables, pid, addr, -EFAULT)
            t2 == gen_free_enter(t1, addr)
        IN  /\ Has(t1.allocs, addr)
            /\ t1.allocs[addr].size = sizes[pid]
            /\ t1.allocs[addr].stack_id = -EFAULT
            /\ K \notin 0 .. (NStacks - 1)
            /\ ReadCinfo(t1.combined_allocs, K) =
                  [total_size |-> before.total_size + sizes[pid],
                   number_of_allocs |-> before.number_of_allocs + 1]
            /\ \A k \in DOMAIN combined_allocs \ {K} :
                  t1.combined_allocs[k] = combined_allocs[k]
            /\ ~Has(t2.allocs, addr)
            /\ DOMAIN t2.combined_allocs = DOMAIN t1.combined_allocs
            /\ t2.combined_allocs[K] = before
            /\ \A k \in DOMAIN t1.combined_allocs \ {K} :
                  t2.combined_allocs[k] = t1.combined_allocs[k]

C13_Witness ==
    /\ \E a \in DOMAIN allocs : allocs[a].stack_id = -EFAULT
    /\ \E a \in DOMAIN allocs : allocs[a].stack_id = 0
    /\ Has(combined_allocs, ToU64(-EFAULT))
    /\ combined_allocs[ToU64(-EFAULT)].number_of_allocs = 1
    /\ sizes # EmptyMap

\* C14: a request writes the owner's pending size if and only if
\* min_size <= size <= max_size and (sample_every_n <= 1 or now mod
\* sample_every_n = 0); a rejected request changes no map, and no request
\* changes allocs, combined_allocs or another owner's pending size.
C14_FilterIsPure ==
    \A pid \in Pids, size \in Sizes, now \in Times :
        LET t1 == gen_alloc_enter(Tables, pid, size, now)
            pass == /\ config.min_size <= size
                    /\ size <= config.max_size
                    /\ \/ config.sample_every_n <= 1
                       \/ now % config.sample_every_n = 0
        IN  /\ t1.allocs = allocs
            /\ t1.combined_allocs = combined_allocs
            /\ \A q \in DOMAIN sizes \ {pid} :
                  Has(t1.sizes, q) /\ t1.sizes[q] = sizes[q]
            /\ DOMAIN t1.sizes \subseteq DOMAIN sizes \cup {pid}
            /\ pass => Has(t1.sizes, pid) /\ t1.sizes[pid] = size
            /\ ~pass => t1 = Tables

C14_Witness ==
    /\ config.max_size < MaxSize
    /\ config.sample_every_n = 2
    /\ sizes # EmptyMap
    /\ Cardinality(DOMAIN sizes) < NPids
    /\ allocs # EmptyMap

\* C15: without the workaround, an allocation event whose completion is
\* matched, for a non-zero address that has a record, replaces the record
\* (allocs keeps the same addresses, one record each) and reverses nothing:
\* the statistics of the old record's stack stay as they were, or grow by
\* the new {size, 1} when the new record is of the same stack.
C15_ReuseKeepsOldContribution ==
    \A pid \in Pids, size \in Sizes, addr \in DOMAIN allocs \ {0},
       now \in Times, stackid \in StackResults :
        LET te == gen_alloc_enter(Tables, pid, size, now)
            t1 == AllocProgram(Tables, FALSE, pid, size, addr, now, stackid)
            sz == te.sizes[pid]
            Kold == ToU64(allocs[addr].stack_id)
            Knew == ToU64(stackid)
            plus(c) == [total_size |-> c.total_size + sz,
                        number_of_allocs |-> c.number_of_allocs + 1]
        IN  Has(te.sizes, pid) =>
              /\ DOMAIN t1.allocs = DOMAIN allocs
              /\ t1.allocs[addr] = [size |-> sz, stack_id |-> stackid]
              /\ \A a \in DOMAIN allocs \ {addr} : t1.allocs[a] = allocs[a]
              /\ Has(combined_allocs, Kold)
              /\ t1.combined_allocs[Kold] =
                    IF Knew = Kold THEN plus(combined_allocs[Kold])
                    ELSE combined_allocs[Kold]
              /\ t1.combined_allocs[Knew] =
                    plus(ReadCinfo(combined_allocs, Knew))

C15_Witness ==
    /\ ~config.wa_missing_free
    /\ hist.reuses = 1
    /\ \E a \in DOMAIN allocs :
          /\ ToU64(allocs[a].stack_id) # ToU64(0)
          /\ Has(combined_allocs, ToU64(0))
          /\ combined_allocs[ToU64(0)].number_of_allocs
                > Cardinality(RecsOf(allocs, ToU64(0)))

\* C16: with wa_missing_free set, the kmem allocation events free the
\* pointer's record (if there is one) before their request and completion;
\* run one at a time within capacity, together with frees and requests,
\* every stack's statistics equal the sum and number of its records, also
\* after an address was allocated again with no free in between.
C16_WorkaroundKeepsMatch == config.wa_missing_free => Match(Tables)

C16_Witness ==
    /\ config.wa_missing_free
    /\ \E a \in used.addrs :
          /\ Has(allocs, a)
          /\ \E k \in DOMAIN combined_allocs :
                /\ combined_allocs[k] = ZeroCinfo
                /\ ToU64(allocs[a].stack_id) # k

\* No stack's statistics are below the sum and number of its records.
AtLeast(t) ==
    \A k \in StatKeys(t) :
        /\ ReadCinfo(t.combined_allocs, k).total_size
              >= Outstanding(t.allocs, k).total_size
        /\ ReadCinfo(t.combined_allocs, k).number_of_allocs
              >= Outstanding(t.allocs, k).number_of_allocs

\* C17: a record is subtracted from the statistics of its stack at most
\* once, also when two frees of its address run at once: when frees (and
\* nothing else) have run on statistics that equalled the records, the
\* statistics of no stack are below the records that are left.
C17_SubtractedAtMostOnce == AllIdle => AtLeast(Tables)

\* C18: no step removes a key of combined_allocs, and, in a run without an
\* overwritten record, a stack none of whose records is left has the
\* entry {0, 0}.
C18_EntriesNeverDeleted ==
    [][/\ DOMAIN combined_allocs \subseteq DOMAIN combined_allocs'
       /\ hist'.reuses = 0 =>
             \A k \in DOMAIN combined_allocs' :
                 RecsOf(allocs', k) = {} => combined_allocs'[k] = ZeroCinfo]_vars

C18_Witness ==
    /\ hist.reuses = 0
    /\ allocs # EmptyMap
    /\ \E k \in DOMAIN combined_allocs :
          /\ RecsOf(allocs, k) = {}
          /\ combined_allocs[k] = ZeroCinfo

\* C19: under any interleaving of uw_get_stackid invocations the counter
\* id never exceeds sample_max_entries, no sample or stack is stored under
\* a key above it and no invocation returns a value above it; an
\* invocation that finds the cap reached returns -1 and writes nothing.
C19_FailsClosedAtCap ==
    /\ id <= sample_max_entries
    /\ \A k \in DOMAIN uw_samples \cup DOMAIN uw_stacks :
          k <= sample_max_entries
    /\ \A n \in 1 .. Len(uw_hist) :
          /\ uw_hist[n].ret <= sample_max_entries
          /\ uw_hist[n].seen >= sample_max_entries
                => /\ uw_hist[n].ret = -1
                   /\ uw_hist[n].sample = 0
                   /\ uw_hist[n].ustack = 0
                   /\ ~uw_hist[n].wrote

\* C20: any two invocations of uw_get_stackid that return a slot (not -1)
\* return different slots and have written registers and stack to
\* different keys, and one that started after the other had returned
\* returns the larger slot.
C20_SlotsUniqueAndMonotonic ==
    \A i, j \in 1 .. Len(uw_hist) :
        (i # j /\ uw_hist[i].ret >= 0 /\ uw_hist[j].ret >= 0)
        => /\ uw_hist[i].ret # uw_hist[j].ret
           /\ uw_hist[i].sample # uw_hist[j].sample
           /\ uw_hist[i].ustack # uw_hist[j].ustack
           /\ j \in uw_hist[i].after => uw_hist[i].ret > uw_hist[j].ret

====
